---- MODULE Spec2Model ----
(***************************************************************************)
(* Model of pylib/bastok/charset.py: the Charset translation table        *)
(* (construction from mapping fragments, setchars, trans, native) and the *)
(* chrsub fragment-editing function.                                       *)
(*                                                                         *)
(* A Python str is modelled as a record [isstr |-> TRUE, s |-> code        *)
(* points]; a value that is not a str (a bytes object) has isstr = FALSE.  *)
(* A Python dict is a TLA+ function whose DOMAIN is the dict's key set.    *)
(* A bytes result is the sequence of its byte values.                      *)
(***************************************************************************)
EXTENDS Integers, Sequences, FiniteSets, TLC

VARIABLES
    nu,          \* self._nu : native (int) to Unicode (str) dict
    un,          \* self._un : Unicode (str) to native (int) dict
    pc,          \* "init" inside __init__, "ready" constructed, "failed" __init__ raised
    it,          \* iterable consumed by the active setchars call: "none" or "frag"
    pos,         \* pairs stored by the setchars call that is active or that raised
    ncalls,      \* setchars calls made on this object
    updates,     \* setchars calls made after __init__ returned
    call,        \* the last operation performed and its argument
    ret,         \* <<v>> when the last operation returned v, <<>> otherwise
    err,         \* the exception the last operation raised, or "none"
    applied,     \* history: the set of pairs stored by setchars so far
    codechars,   \* chrsub argument: the sequence of (code, char) pairs
    replacement, \* chrsub argument: the replacement pair
    subpc,       \* "idle", "call" before chrsub runs, "done" after
    subret,      \* <<tuple>> when chrsub returned, <<>> otherwise
    suberr       \* the exception chrsub raised, or "none"

vars == <<nu, un, pc, it, pos, ncalls, updates, call, ret, err, applied,
          codechars, replacement, subpc, subret, suberr>>

charsetVars == <<nu, un, pc, it, pos, ncalls, updates, call, ret, err, applied>>
chrsubVars == <<codechars, replacement, subpc, subret, suberr>>

----------------------------------------------------------------------------
(* Program constants *)

TableSize == 256
MaxNative == 255

(* Bounds of the model *)

MaxFragLen == 2
MaxCalls == 2
MaxSubLen == 3

----------------------------------------------------------------------------
(* Values *)

Str(s) == [isstr |-> TRUE, s |-> s]
Bytes(s) == [isstr |-> FALSE, s |-> s]
Ch(k) == Str(<<k>>)

FreshChar == Ch(9731)

NativeCodes == 0 .. MaxNative

(* Inputs *)

GoodChars == {Ch(0), Ch(1), FreshChar}
BadChars == {Str(<<>>), Str(<<0, 1>>), Bytes(<<0>>)}
GoodPairs == {<<0, Ch(0)>>, <<0, Ch(1)>>, <<0, FreshChar>>, <<1, Ch(0)>>}
BadPairs ==
    {<<0, u>> : u \in BadChars}
        \cup {<<-1, Ch(0)>>, <<256, Ch(0)>>, <<-1, Str(<<>>)>>}
InPairs == GoodPairs \cup BadPairs
TransArgs == {-1, 0, 255, 256}
NativeArgs == GoodChars \cup BadChars
BaseSkips == {0, 1}

BaseLen(l) == TableSize - l
BasePair(l, i) == <<l + i - 1, Ch(l + i - 1)>>

----------------------------------------------------------------------------
(* Charset *)

EmptyDict == <<>>

DictSet(d, k, v) ==
    IF k \in DOMAIN d THEN [d EXCEPT ![k] = v] ELSE (k :> v) @@ d

(* Ncheck with the upper limit off by one. *)
NcheckOffByOne(n) ==
    IF n < 0 \/ n > TableSize THEN "BadNativeCode" ELSE "ok"

Ncheck(n) ==
    IF n < 0 \/ n > MaxNative THEN "BadNativeCode" ELSE "ok"

(* Ucheck rejecting only strings longer than one character. *)
UcheckLoose(u) ==
    IF ~u.isstr THEN "NotAStr"
    ELSE IF Len(u.s) > 1 THEN "StrNotLength1"
    ELSE "ok"

Ucheck(u) ==
    IF ~u.isstr THEN "NotAStr"
    ELSE IF Len(u.s) # 1 THEN "StrNotLength1"
    ELSE "ok"

DictDel(d, k) == [x \in DOMAIN d \ {k} |-> d[x]]

(* SetPair dropping the reverse entry of the character it overwrites. *)
SetPairPurge(t, n, u) ==
    [nu |-> DictSet(t.nu, n, u),
     un |-> DictSet(IF n \in DOMAIN t.nu THEN DictDel(t.un, t.nu[n]) ELSE t.un,
                    u, n)]

(* SetPair without the reverse entry (line 53 left out). *)
SetPairForwardOnly(t, n, u) ==
    [nu |-> DictSet(t.nu, n, u), un |-> t.un]

SetPair(t, n, u) ==
    [nu |-> DictSet(t.nu, n, u), un |-> DictSet(t.un, u, n)]

(* Complete looking at the native-to-Unicode dict only. *)
CompleteNativeOnly(nlen, ulen) == nlen = TableSize

Complete(nlen, ulen) == nlen = ulen /\ ulen = TableSize

BytesOf(k) ==
    IF k \in 0 .. 255 THEN [err |-> "none", val |-> << <<k>> >>]
    ELSE [err |-> "BytesRange", val |-> <<>>]

TransF(n) ==
    IF Ncheck(n) # "ok" THEN [err |-> Ncheck(n), val |-> <<>>]
    ELSE IF n \notin DOMAIN nu THEN [err |-> "KeyError", val |-> <<>>]
    ELSE [err |-> "none", val |-> <<nu[n]>>]

NativeF(u) ==
    IF Ucheck(u) # "ok" THEN [err |-> Ucheck(u), val |-> <<>>]
    ELSE IF u \notin DOMAIN un THEN [err |-> "KeyError", val |-> <<>>]
    ELSE BytesOf(un[u])

Ord(b) == b[1]

(* __init__, lines 19-21: the object with both dicts empty, about to loop
   over maps. *)
CharsetInit ==
    /\ nu = EmptyDict
    /\ un = EmptyDict
    /\ pc = "init"
    /\ it = "none"
    /\ pos = 0
    /\ ncalls = 0
    /\ updates = 0
    /\ call = [name |-> "__init__", arg |-> <<>>]
    /\ ret = <<>>
    /\ err = "none"
    /\ applied = {}

(* One iteration of the loop of setchars (lines 49-53) on the pair <<n, u>>;
   t holds the dicts, the number of pairs stored and the error raised. *)
SetcharsIter(t, n, u) ==
    IF Ncheck(n) # "ok" THEN [t EXCEPT !.err = Ncheck(n)]
    ELSE IF Ucheck(u) # "ok" THEN [t EXCEPT !.err = Ucheck(u)]
    ELSE [nu |-> SetPair([nu |-> t.nu, un |-> t.un], n, u).nu,
          un |-> SetPair([nu |-> t.nu, un |-> t.un], n, u).un,
          stored |-> t.stored + 1,
          err |-> "none"]

(* The iterations i..j of the loop of setchars over the base table that
   starts at native code l; the loop ends at the first error.  The range is
   split in halves only to keep the evaluation shallow. *)
RECURSIVE SetcharsLoop(_, _, _, _)
SetcharsLoop(t, l, i, j) ==
    IF t.err # "none" \/ i > j THEN t
    ELSE IF i = j THEN SetcharsIter(t, BasePair(l, i)[1], BasePair(l, i)[2])
    ELSE SetcharsLoop(SetcharsLoop(t, l, i, (i + j) \div 2),
                      l, (i + j) \div 2 + 1, j)

(* setchars, called from the loop of __init__ or by a caller of the
   constructed object, with the base table that starts at native code l:
   the whole call. *)
SetcharsBase(l) ==
    /\ pc \in {"init", "ready"}
    /\ it = "none"
    /\ ncalls < MaxCalls
    /\ ncalls' = ncalls + 1
    /\ updates' = (IF pc = "ready" THEN updates + 1 ELSE updates)
    /\ call' = [name |-> "setchars", arg |-> <<l>>]
    /\ ret' = <<>>
    /\ LET r == SetcharsLoop([nu |-> nu, un |-> un, stored |-> 0, err |-> "none"],
                              l, 1, BaseLen(l))
       IN /\ nu' = r.nu
          /\ un' = r.un
          /\ err' = r.err
          /\ pos' = (IF r.err = "none" THEN 0 ELSE r.stored)
          /\ applied' = applied \cup {BasePair(l, i) : i \in 1 .. r.stored}
          /\ pc' = (IF r.err # "none" /\ pc = "init" THEN "failed" ELSE pc)
    /\ UNCHANGED it
    /\ UNCHANGED chrsubVars

(* setchars is entered with another iterable of pairs, which the steps
   below consume a pair at a time. *)
SetcharsFrag ==
    /\ pc \in {"init", "ready"}
    /\ it = "none"
    /\ ncalls < MaxCalls
    /\ it' = "frag"
    /\ pos' = 0
    /\ ncalls' = ncalls + 1
    /\ updates' = (IF pc = "ready" THEN updates + 1 ELSE updates)
    /\ call' = [name |-> "setchars", arg |-> <<>>]
    /\ ret' = <<>>
    /\ err' = "none"
    /\ UNCHANGED <<nu, un, pc, applied>>
    /\ UNCHANGED chrsubVars

(* The loop of setchars takes the pair <<n, u>> from the iterable. *)
SetcharsPair(n, u) ==
    /\ call' = [name |-> "pair", arg |-> <<n, u>>]
    /\ ret' = <<>>
    /\ LET r == SetcharsIter([nu |-> nu, un |-> un, stored |-> pos, err |-> "none"],
                             n, u)
       IN /\ nu' = r.nu
          /\ un' = r.un
          /\ err' = r.err
          /\ pos' = r.stored
          /\ applied' = (IF r.err = "none" THEN applied \cup {<<n, u>>} ELSE applied)
          /\ it' = (IF r.err = "none" THEN it ELSE "none")
          /\ pc' = (IF r.err # "none" /\ pc = "init" THEN "failed" ELSE pc)
    /\ UNCHANGED <<ncalls, updates>>
    /\ UNCHANGED chrsubVars

SetcharsStep ==
    /\ it = "frag"
    /\ pos < MaxFragLen
    /\ \E p \in InPairs : SetcharsPair(p[1], p[2])

(* The iterable is exhausted and setchars returns. *)
SetcharsReturn ==
    /\ it = "frag"
    /\ it' = "none"
    /\ call' = [name |-> "setchars", arg |-> <<>>]
    /\ ret' = <<>>
    /\ err' = "none"
    /\ pos' = 0
    /\ UNCHANGED <<nu, un, pc, ncalls, updates, applied>>
    /\ UNCHANGED chrsubVars

(* __init__, lines 23-27: maps is exhausted, the table is checked. *)
InitCheck ==
    /\ pc = "init"
    /\ it = "none"
    /\ call' = [name |-> "check", arg |-> <<>>]
    /\ ret' = <<>>
    /\ IF Complete(Cardinality(DOMAIN nu), Cardinality(DOMAIN un))
       THEN pc' = "ready" /\ err' = "none"
       ELSE pc' = "failed" /\ err' = "Incomplete"
    /\ UNCHANGED <<nu, un, it, pos, ncalls, updates, applied>>
    /\ UNCHANGED chrsubVars

Trans(n) ==
    /\ pc = "ready"
    /\ it = "none"
    /\ call' = [name |-> "trans", arg |-> n]
    /\ ret' = TransF(n).val
    /\ err' = TransF(n).err
    /\ UNCHANGED <<nu, un, pc, it, pos, ncalls, updates, applied>>
    /\ UNCHANGED chrsubVars

Native(u) ==
    /\ pc = "ready"
    /\ it = "none"
    /\ call' = [name |-> "native", arg |-> u]
    /\ ret' = NativeF(u).val
    /\ err' = NativeF(u).err
    /\ UNCHANGED <<nu, un, pc, it, pos, ncalls, updates, applied>>
    /\ UNCHANGED chrsubVars

----------------------------------------------------------------------------
(* chrsub *)

RECURSIVE ChrsubLoop(_, _, _, _, _)
ChrsubLoop(cc, r, i, out, replaced) ==
    IF i > Len(cc)
    THEN IF ~replaced THEN [err |-> "LookupError", val |-> <<>>]
         ELSE [err |-> "none", val |-> <<out>>]
    ELSE IF cc[i][1] = r[1]
         THEN ChrsubLoop(cc, r, i + 1, Append(out, r), TRUE)
         ELSE ChrsubLoop(cc, r, i + 1, Append(out, cc[i]), replaced)

(* chrsub replacing the first matching pair only. *)
RECURSIVE ChrsubFirstLoop(_, _, _, _, _)
ChrsubFirstLoop(cc, r, i, out, replaced) ==
    IF i > Len(cc)
    THEN IF ~replaced THEN [err |-> "LookupError", val |-> <<>>]
         ELSE [err |-> "none", val |-> <<out>>]
    ELSE IF cc[i][1] = r[1] /\ ~replaced
         THEN ChrsubFirstLoop(cc, r, i + 1, Append(out, r), TRUE)
         ELSE ChrsubFirstLoop(cc, r, i + 1, Append(out, cc[i]), replaced)

chrsubFirstOnly(cc, r) == ChrsubFirstLoop(cc, r, 1, <<>>, FALSE)

(* chrsub appending the replacement when no pair matched. *)
chrsubOrAppend(cc, r) ==
    IF ChrsubLoop(cc, r, 1, <<>>, FALSE).err = "none"
    THEN ChrsubLoop(cc, r, 1, <<>>, FALSE)
    ELSE [err |-> "none", val |-> <<Append(cc, r)>>]

chrsub(cc, r) == ChrsubLoop(cc, r, 1, <<>>, FALSE)

SubCodes == {0, 1}
SubChars == {Ch(0), Ch(1)}
SubPairs == {<<n, u>> : n \in SubCodes, u \in SubChars}
SubReplacements == {<<n, u>> : n \in SubCodes, u \in SubChars \cup {FreshChar}}

RECURSIVE SeqsUpTo(_, _)
SeqsUpTo(S, k) ==
    IF k = 0 THEN {<<>>}
    ELSE LET shorter == SeqsUpTo(S, k - 1)
         IN shorter \cup {Append(q, x) : q \in shorter, x \in S}

ChrsubIdle ==
    /\ codechars = <<>>
    /\ replacement = <<0, Ch(0)>>
    /\ subpc = "idle"
    /\ subret = <<>>
    /\ suberr = "none"

ChrsubInit ==
    /\ codechars \in SeqsUpTo(SubPairs, MaxSubLen)
    /\ replacement \in SubReplacements
    /\ subpc = "call"
    /\ subret = <<>>
    /\ suberr = "none"

Chrsub ==
    /\ subpc = "call"
    /\ subpc' = "done"
    /\ subret' = chrsub(codechars, replacement).val
    /\ suberr' = chrsub(codechars, replacement).err
    /\ UNCHANGED <<codechars, replacement>>
    /\ UNCHANGED charsetVars

----------------------------------------------------------------------------
(* Specifications *)

Init == CharsetInit /\ ChrsubIdle

Next ==
    \/ \E l \in BaseSkips : SetcharsBase(l)
    \/ SetcharsFrag
    \/ SetcharsStep
    \/ SetcharsReturn
    \/ InitCheck
    \/ \E n \in TransArgs : Trans(n)
    \/ \E u \in NativeArgs : Native(u)

Spec == Init /\ [][Next]_vars

InitSub == CharsetInit /\ ChrsubInit

NextSub == Chrsub

SpecSub == InitSub /\ [][NextSub]_vars

----------------------------------------------------------------------------
(* Properties *)

(* The object as __init__ left it: constructed, and not updated since. *)
Pristine == pc = "ready" /\ updates = 0

Ok(v) == [err |-> "none", val |-> <<v>>]

Image(f) == {f[x] : x \in DOMAIN f}

(* C1: on every Charset whose construction succeeded, native(trans(n)) is
   the single byte n for every n in 0..255. *)
C1_RoundTrip ==
    Pristine =>
        \A n \in NativeCodes :
            /\ TransF(n).err = "none"
            /\ NativeF(TransF(n).val[1]) = Ok(<<n>>)

(* C2: on every Charset whose construction succeeded, trans(ord(native(c)))
   is c for every key c of the Unicode-to-native dict. *)
C2_InverseRoundTrip ==
    Pristine =>
        \A c \in DOMAIN un :
            /\ NativeF(c).err = "none"
            /\ TransF(Ord(NativeF(c).val[1])) = Ok(c)

(* C3: on every Charset whose construction succeeded both dicts hold exactly
   256 entries, the keys of the native-to-Unicode dict are exactly 0..255,
   and trans(n) returns a one-character str for every n in 0..255. *)
C3_Totality ==
    /\ Pristine =>
          /\ Cardinality(DOMAIN nu) = TableSize
          /\ Cardinality(DOMAIN un) = TableSize
          /\ DOMAIN nu = NativeCodes
          /\ \A n \in NativeCodes :
                /\ TransF(n).err = "none"
                /\ Ucheck(TransF(n).val[1]) = "ok"
    /\ (Pristine /\ call.name = "trans" /\ call.arg \in NativeCodes) =>
          /\ err = "none"
          /\ ret = <<nu[call.arg]>>

C3_Witness ==
    /\ Pristine
    /\ call.name = "trans"
    /\ call.arg = 255
    /\ err = "none"
    /\ ret = <<Ch(255)>>

CodesApplied == {p[1] : p \in applied}

(* C4: when __init__ has applied all its fragments and either dict does not
   hold exactly 256 entries, construction fails with the incomplete-table
   error; construction never succeeds while the applied pairs cover fewer
   than 256 distinct native codes. *)
C4_ConstructionFailure ==
    /\ (call.name = "check" /\ (Cardinality(DOMAIN nu) # TableSize
                                \/ Cardinality(DOMAIN un) # TableSize)) =>
          (pc = "failed" /\ err = "Incomplete")
    /\ Cardinality(CodesApplied) < TableSize => pc # "ready"

C4_Witness ==
    /\ call.name = "check"
    /\ Cardinality(DOMAIN nu) = TableSize
    /\ Cardinality(DOMAIN un) = TableSize + 1
    /\ pc = "failed"
    /\ err = "Incomplete"

Differing(a, b) == {i \in 1 .. Len(a) : a[i] # b[i]}

Matching(cc, r) == {i \in 1 .. Len(cc) : cc[i][1] = r[1]}

(* C5 as stated: a successful chrsub returns a sequence of the same length
   that differs from codechars in at most one position, whatever the
   fragment. *)
C5_AtMostOneChanged ==
    (subpc = "done" /\ suberr = "none") =>
        /\ Len(subret[1]) = Len(codechars)
        /\ Cardinality(Differing(subret[1], codechars)) <= 1

(* C5 amended: a successful chrsub returns a sequence of the same length and
   order in which every pair whose native code is the replacement's is the
   replacement and every other pair is the input's; so it differs from
   codechars only at the matching positions, in at most one position when
   the replacement's code occurs once in codechars. *)
C5_AllMatchingReplaced ==
    (subpc = "done" /\ suberr = "none") =>
        /\ Len(subret[1]) = Len(codechars)
        /\ \A i \in 1 .. Len(codechars) :
              subret[1][i] = IF i \in Matching(codechars, replacement)
                             THEN replacement ELSE codechars[i]
        /\ Differing(subret[1], codechars) \subseteq Matching(codechars, replacement)
        /\ Cardinality(Matching(codechars, replacement)) = 1 =>
              Cardinality(Differing(subret[1], codechars)) <= 1

C5_Witness ==
    /\ subpc = "done"
    /\ suberr = "none"
    /\ Cardinality(Matching(codechars, replacement)) = 2
    /\ Cardinality(Differing(subret[1], codechars)) = 2

(* C6: chrsub raises LookupError exactly when no pair of codechars has the
   replacement's native code; a returned sequence holds no native code that
   codechars lacks; the arguments are left as they were. *)
C6_NotFound ==
    /\ [](subpc = "done" =>
            /\ suberr = "LookupError" <=> Matching(codechars, replacement) = {}
            /\ suberr \in {"none", "LookupError"}
            /\ suberr = "LookupError" => subret = <<>>
            /\ suberr = "none" =>
                  {subret[1][i][1] : i \in 1 .. Len(subret[1])}
                      \subseteq {codechars[i][1] : i \in 1 .. Len(codechars)})
    /\ [][codechars' = codechars /\ replacement' = replacement]_vars

C6_Witness ==
    /\ subpc = "done"
    /\ suberr = "LookupError"
    /\ Len(codechars) = 2
    /\ subret = <<>>

BadCode(n) == n < 0 \/ n > 255

(* C7: trans of an integer below 0 or above 255 raises the bad-native-code
   error and native of a str whose length is not 1 raises the
   str-not-length-1 error, whatever the dicts hold (so before any lookup);
   nothing is returned and neither dict changes. *)
C7_StrictValidation ==
    /\ [](/\ \A n \in {m \in TransArgs : BadCode(m)} :
                TransF(n) = [err |-> "BadNativeCode", val |-> <<>>]
          /\ \A u \in {v \in NativeArgs : v.isstr /\ Len(v.s) # 1} :
                NativeF(u) = [err |-> "StrNotLength1", val |-> <<>>]
          /\ (call.name = "trans" /\ BadCode(call.arg)) =>
                (err = "BadNativeCode" /\ ret = <<>>)
          /\ (call.name = "native" /\ call.arg.isstr /\ Len(call.arg.s) # 1) =>
                (err = "StrNotLength1" /\ ret = <<>>))
    /\ [][call'.name \in {"trans", "native"} => (nu' = nu /\ un' = un)]_vars

C7_Witness ==
    /\ call.name = "native"
    /\ call.arg = Str(<<>>)
    /\ err = "StrNotLength1"
    /\ ret = <<>>

(* C8: a stored pair (n, u) sets nu[n] = u and un[u] = n and changes no
   other entry of either dict, the reverse entry of the character formerly
   at n included; a whole base table, whose codes are distinct, does the
   same for each of its pairs; the keys of un are the characters of all
   pairs stored so far, and nu[n] is the character of a stored pair with
   code n, the last one. *)
C8_UpdateStep ==
    /\ [](/\ DOMAIN un = {p[2] : p \in applied}
          /\ DOMAIN nu = CodesApplied
          /\ \A n \in DOMAIN nu : <<n, nu[n]>> \in applied
          /\ (call.name = "pair" /\ err = "none") =>
                (nu[call.arg[1]] = call.arg[2] /\ un[call.arg[2]] = call.arg[1]))
    /\ [][(call'.name = "pair" /\ err' = "none") =>
            /\ DOMAIN nu' = DOMAIN nu \cup {call'.arg[1]}
            /\ DOMAIN un' = DOMAIN un \cup {call'.arg[2]}
            /\ nu'[call'.arg[1]] = call'.arg[2]
            /\ un'[call'.arg[2]] = call'.arg[1]
            /\ \A k \in DOMAIN nu \ {call'.arg[1]} : nu'[k] = nu[k]
            /\ \A c \in DOMAIN un \ {call'.arg[2]} : un'[c] = un[c]]_vars
    /\ [][(call'.name = "setchars" /\ call'.arg # <<>> /\ err' = "none") =>
            LET l == call'.arg[1]
                codes == {BasePair(l, i)[1] : i \in 1 .. BaseLen(l)}
                chars == {BasePair(l, i)[2] : i \in 1 .. BaseLen(l)}
            IN /\ DOMAIN nu' = DOMAIN nu \cup codes
               /\ DOMAIN un' = DOMAIN un \cup chars
               /\ \A i \in 1 .. BaseLen(l) :
                     /\ nu'[BasePair(l, i)[1]] = BasePair(l, i)[2]
                     /\ un'[BasePair(l, i)[2]] = BasePair(l, i)[1]
               /\ \A k \in DOMAIN nu \ codes : nu'[k] = nu[k]
               /\ \A c \in DOMAIN un \ chars : un'[c] = un[c]]_vars

(* A pair has just overwritten code 0 and the character formerly there
   keeps its reverse entry. *)
C8_Witness ==
    /\ call.name = "pair"
    /\ err = "none"
    /\ call.arg = <<0, FreshChar>>
    /\ Ch(0) \in DOMAIN un
    /\ un[Ch(0)] = 0
    /\ nu[0] = FreshChar

(* C9: construction succeeds whenever the table the fragments leave is
   total on 0..255 and injective, as when a later fragment re-assigns one
   code of a complete base table to a character the base does not use. *)
C9_OverrideSucceeds ==
    (/\ call.name = "check"
     /\ DOMAIN nu = NativeCodes
     /\ Cardinality(Image(nu)) = TableSize) => pc = "ready"

(* C10: in every state of a Charset every key of nu is in 0..255, every
   character nu holds is a key of un and every code un holds is a key of
   nu; so native(trans(n)) is never a lookup miss where trans(n) is not. *)
C10_Closure ==
    /\ DOMAIN nu \subseteq NativeCodes
    /\ \A n \in DOMAIN nu : nu[n] \in DOMAIN un
    /\ \A c \in DOMAIN un : un[c] \in DOMAIN nu
    /\ \A n \in NativeCodes :
          TransF(n).err = "none" => NativeF(TransF(n).val[1]).err = "none"

(* setchars on a constructed object raised after storing a pair. *)
C10_Witness ==
    /\ pc = "ready"
    /\ updates > 0
    /\ call.name = "pair"
    /\ err # "none"
    /\ pos > 0
    /\ FreshChar \in DOMAIN un

====
